---- MODULE Spec2Model ----
(***************************************************************************)
(* Model of YFinanceDataFetcher (src/pull_dada/y_finance/data_fetcher.py): *)
(* interval validation, rate limiting, date-range clamping, the provider   *)
(* query, and the sequential batch run that saves and reports per ticker.  *)
(*                                                                         *)
(* Representation.                                                         *)
(*  - A Python str that the code inspects character by character           *)
(*    (ticker input) is a sequence of one-character strings.               *)
(*  - A date string in "%Y-%m-%d" form is the tuple <<y, m, d>>; BadDate   *)
(*    is a string strptime rejects; NoDate stands for the falsy values     *)
(*    None and "".  datetime values are day ordinals.                      *)
(*  - Time is counted in ticks of 0.1 s; NoTime stands for None.           *)
(*  - A dict is the sequence of its <<key, value>> items in insertion      *)
(*    order.                                                               *)
(*  - The provider (yfinance) and the file system are the environment:     *)
(*    their outcomes are chosen nondeterministically.                      *)
(***************************************************************************)
EXTENDS Integers, Sequences, FiniteSets, TLC

VARIABLES
    clock,              \* time.time(), in ticks
    last_request_time,  \* self.last_request_time
    call,               \* arguments of the latest fetch_data invocation
    events,             \* side effects of the latest fetch_data invocation, in order
    ret,                \* how the latest fetch_data invocation ended
    pc,                 \* position of fetch_and_save_multiple / process_tickers
    ticker_input,       \* argument ticker_input
    batch,              \* arguments interval, start_date, end_date of the batch
    tickers,            \* local variable tickers
    idx,                \* number of tickers the for loop has completed
    results,            \* local variable results (dict: ticker -> entry)
    outcomes,           \* history: provider and save outcome of each iteration
    files,              \* data files written below base_dir
    console             \* what the command-line run printed after the batch

vars == <<clock, last_request_time, call, events, ret, pc, ticker_input,
          batch, tickers, idx, results, outcomes, files, console>>

NoTime == -1

NoDate == <<>>

-----------------------------------------------------------------------------
(* Bounds of the model                                                     *)

MaxTime == 11
MaxOversleep == 1
MaxLen == 5

-----------------------------------------------------------------------------
(* __init__                                                                *)

supported_intervals_without_90m ==
    [i \in {"1m"} |-> "7d"] @@
    [i \in {"2m", "5m", "15m", "30m", "60m", "1h"} |-> "60d"] @@
    [i \in {"1d", "5d", "1wk", "1mo", "3mo"} |-> "max"]

supported_intervals_1m_60d ==
    [i \in {"1m", "2m", "5m", "15m", "30m", "60m", "90m", "1h"} |-> "60d"] @@
    [i \in {"1d", "5d", "1wk", "1mo", "3mo"} |-> "max"]

supported_intervals ==
    [i \in {"1m"} |-> "7d"] @@
    [i \in {"2m", "5m", "15m", "30m", "60m", "90m", "1h"} |-> "60d"] @@
    [i \in {"1d", "5d", "1wk", "1mo", "3mo"} |-> "max"]

\* 0.5 s, in ticks of 0.1 s
min_request_interval == 5

-----------------------------------------------------------------------------
(* datetime.strptime(s, "%Y-%m-%d"), timedelta(days=n), strftime           *)

\* "2024-13-01": no such month
BadDate == <<2024, 13, 1>>

IsLeap(y) == (y % 4 = 0 /\ y % 100 # 0) \/ y % 400 = 0

DaysInMonth(y, m) ==
    IF m = 2 THEN (IF IsLeap(y) THEN 29 ELSE 28)
    ELSE IF m \in {4, 6, 9, 11} THEN 30 ELSE 31

DaysInYear(y) == IF IsLeap(y) THEN 366 ELSE 365

RECURSIVE DaysBeforeMonth(_, _)
DaysBeforeMonth(y, m) ==
    IF m = 1 THEN 0 ELSE DaysBeforeMonth(y, m - 1) + DaysInMonth(y, m - 1)

\* days before January 1st of year y (proleptic Gregorian, as datetime counts)
DaysBeforeYear(y) ==
    365 * (y - 1) + ((y - 1) \div 4) - ((y - 1) \div 100) + ((y - 1) \div 400)

\* whether strptime accepts the string
WellFormed(s) ==
    /\ Len(s) = 3
    /\ s[1] \in 1..9999
    /\ s[2] \in 1..12
    /\ s[3] \in 1..DaysInMonth(s[1], s[2])

\* the datetime strptime returns, as the ordinal of its day (0001-01-01 is day 1)
strptime(s) == DaysBeforeYear(s[1]) + DaysBeforeMonth(s[1], s[2]) + s[3]

RECURSIVE YearOf(_, _)
YearOf(n, y) == IF n <= DaysBeforeYear(y + 1) THEN y ELSE YearOf(n, y + 1)

RECURSIVE MonthOf(_, _, _)
MonthOf(n, y, m) ==
    IF n <= DaysInMonth(y, m) THEN <<m, n>> ELSE MonthOf(n - DaysInMonth(y, m), y, m + 1)

\* the "%Y-%m-%d" string of the day with ordinal n
strftime(n) ==
    LET y  == YearOf(n, ((n - 1) \div 366) + 1)
        md == MonthOf(n - DaysBeforeYear(y), y, 1)
    IN  <<y, md[1], md[2]>>

-----------------------------------------------------------------------------
(* str.split(','), str.strip(), str.upper() and process_tickers            *)

Whitespace == {" ", "\t", "\n"}

LowerCase == <<"a", "b", "c", "d", "e", "f", "g", "h", "i", "j", "k", "l", "m",
               "n", "o", "p", "q", "r", "s", "t", "u", "v", "w", "x", "y", "z">>
UpperCase == <<"A", "B", "C", "D", "E", "F", "G", "H", "I", "J", "K", "L", "M",
               "N", "O", "P", "Q", "R", "S", "T", "U", "V", "W", "X", "Y", "Z">>

UpperChar(c) ==
    IF \E k \in 1..Len(LowerCase) : LowerCase[k] = c
    THEN UpperCase[CHOOSE k \in 1..Len(LowerCase) : LowerCase[k] = c]
    ELSE c

upper(s) == [k \in 1..Len(s) |-> UpperChar(s[k])]

RECURSIVE lstrip(_)
lstrip(s) == IF s # <<>> /\ Head(s) \in Whitespace THEN lstrip(Tail(s)) ELSE s

RECURSIVE rstrip(_)
rstrip(s) ==
    IF s # <<>> /\ s[Len(s)] \in Whitespace THEN rstrip(SubSeq(s, 1, Len(s) - 1)) ELSE s

strip_left_only(s) == lstrip(s)

strip(s) == rstrip(lstrip(s))

\* s.split(','): the segments between commas; always at least one segment
RECURSIVE split(_, _)
split(s, cur) ==
    IF s = <<>> THEN <<cur>>
    ELSE IF Head(s) = "," THEN <<cur>> \o split(Tail(s), <<>>)
    ELSE split(Tail(s), Append(cur, Head(s)))

RECURSIVE Comprehension(_)
Comprehension(segs) ==
    IF segs = <<>> THEN <<>>
    ELSE IF strip(Head(segs)) # <<>>
         THEN <<upper(strip(Head(segs)))>> \o Comprehension(Tail(segs))
         ELSE Comprehension(Tail(segs))

process_tickers(s) == Comprehension(split(s, <<>>))

-----------------------------------------------------------------------------
(* _rate_limit                                                             *)

sleep_for_elapsed(last, now) ==
    IF last # NoTime /\ now - last < min_request_interval
    THEN now - last
    ELSE 0

\* the argument of time.sleep; 0 when the call does not sleep
sleep_for(last, now) ==
    IF last # NoTime /\ now - last < min_request_interval
    THEN min_request_interval - (now - last)
    ELSE 0

\* time.sleep(d) suspends for at least d; the grant is stamped after it
rate_limit ==
    \E over \in 0..MaxOversleep :
        LET d == sleep_for(last_request_time, clock) IN
        /\ d = 0 => over = 0
        /\ clock + d + over <= MaxTime
        /\ clock' = clock + d + over
        /\ last_request_time' = clock + d + over

-----------------------------------------------------------------------------
(* fetch_data                                                              *)

clamped_intervals_with_90m == {"1m", "2m", "5m", "15m", "30m", "60m", "90m", "1h"}

clamped_intervals == {"1m", "2m", "5m", "15m", "30m", "60m", "1h"}

max_days(interval) == IF interval = "1m" THEN 7 ELSE 60

\* what stock.history can do: return rows, return no rows, raise
ProviderResults == {"data", "empty", "error"}

History(kind, start, end, period, interval, r, now) ==
    [ev |-> "history", kind |-> kind, start |-> start, end |-> end,
     period |-> period, interval |-> interval, result |-> r, at |-> now]

\* the statements under try, entered at time now, with r what the provider
\* does if queried; ret "Exception" is an exception leaving them
try_body(ticker, interval, start_date, end_date, r, now) ==
    LET both   == start_date # NoDate /\ end_date # NoDate
        parse  == both /\ interval \in clamped_intervals
        bad    == parse /\ ~(WellFormed(start_date) /\ WellFormed(end_date))
        adjust == /\ parse
                  /\ ~bad
                  /\ strptime(end_date) - strptime(start_date) > max_days(interval)
        start  == IF adjust
                  THEN strftime(strptime(end_date) - max_days(interval))
                  ELSE start_date
        note   == IF adjust
                  THEN <<[ev |-> "print_note", start_date |-> start, interval |-> interval]>>
                  ELSE <<>>
        query  == IF both
                  THEN History("range", start, end_date, "", interval, r, now)
                  ELSE History("period", NoDate, NoDate, supported_intervals[interval],
                               interval, r, now)
    IN  IF bad
        THEN [events |-> <<>>, ret |-> "Exception"]
        ELSE IF r = "error"
        THEN [events |-> note \o <<query>>, ret |-> "Exception"]
        ELSE IF r = "empty"
        THEN [events |-> note \o <<query, [ev |-> "print_warning", ticker |-> ticker]>>,
              ret |-> "None"]
        ELSE [events |-> note \o <<query>>, ret |-> "data"]

try_block_without_except(ticker, interval, start_date, end_date, r, now) ==
    try_body(ticker, interval, start_date, end_date, r, now)

\* try ... except Exception: print the error and return None
try_block(ticker, interval, start_date, end_date, r, now) ==
    LET b == try_body(ticker, interval, start_date, end_date, r, now)
    IN  IF b.ret = "Exception"
        THEN [events |-> Append(b.events, [ev |-> "print_error", ticker |-> ticker]),
              ret |-> "None"]
        ELSE b

fetch_data(ticker, interval, start_date, end_date) ==
    /\ call' = [ticker |-> ticker, interval |-> interval,
                start_date |-> start_date, end_date |-> end_date]
    /\ IF interval \notin DOMAIN supported_intervals
       THEN /\ events' = <<>>
            /\ ret' = "ValueError"
            /\ UNCHANGED <<clock, last_request_time>>
       ELSE /\ rate_limit
            /\ \E r \in ProviderResults :
                 LET b == try_block(ticker, interval, start_date, end_date, r,
                                    last_request_time')
                 IN  /\ events' = <<[ev |-> "rate_limit",
                                      slept |-> sleep_for(last_request_time, clock),
                                      at |-> last_request_time']>> \o b.events
                     /\ ret' = b.ret

-----------------------------------------------------------------------------
(* save_data                                                               *)

Path(parent, name) == [parent |-> parent, name |-> name]

base_dir == Path("data", "run")

\* mkdir or to_csv succeeds or raises
SaveResults == {"ok", "OSError"}

save_data(data, ticker, dir, interval) ==
    LET ticker_dir == Path(dir, ticker)
        data_dir   == Path(ticker_dir, "data")
        file_name  == [ticker |-> ticker, interval |-> interval, ext |-> ".csv"]
    IN  [ticker_dir |-> ticker_dir, data_path |-> Path(data_dir, file_name)]

-----------------------------------------------------------------------------
(* dict                                                                    *)

DictKeys(d) == {d[k][1] : k \in 1..Len(d)}

DictGet(d, key) == d[CHOOSE k \in 1..Len(d) : d[k][1] = key][2]

DictSet_keep_first(d, key, value) ==
    IF key \in DictKeys(d) THEN d ELSE Append(d, <<key, value>>)

DictSet(d, key, value) ==
    IF key \in DictKeys(d)
    THEN [k \in 1..Len(d) |-> IF d[k][1] = key THEN <<key, value>> ELSE d[k]]
    ELSE Append(d, <<key, value>>)

-----------------------------------------------------------------------------
(* fetch_and_save_multiple                                                 *)

record_result_without_else(res, ticker, interval, data, s) ==
    IF data # "None"
    THEN IF s = "ok"
         THEN DictSet(res, ticker,
                      [status |-> "success",
                       paths  |-> save_data(data, ticker, base_dir, interval),
                       data   |-> data])
         ELSE DictSet(res, ticker,
                      [status |-> "error", message |-> <<"Error saving data: ", s>>])
    ELSE res

record_result_before_save(res, ticker, interval, data, s) ==
    IF data # "None"
    THEN DictSet(res, ticker,
                 [status |-> "success",
                  paths  |-> save_data(data, ticker, base_dir, interval),
                  data   |-> data])
    ELSE DictSet(res, ticker,
                 [status |-> "error", message |-> <<"Failed to fetch data">>])

\* the body of the loop after fetch_data returned data (or None), with s what
\* save_data does if called
record_result(res, ticker, interval, data, s) ==
    IF data # "None"
    THEN IF s = "ok"
         THEN DictSet(res, ticker,
                      [status |-> "success",
                       paths  |-> save_data(data, ticker, base_dir, interval),
                       data   |-> data])
         ELSE DictSet(res, ticker,
                      [status |-> "error", message |-> <<"Error saving data: ", s>>])
    ELSE DictSet(res, ticker,
                 [status |-> "error", message |-> <<"Failed to fetch data">>])

\* what the provider did in a fetch_data invocation
FetchOutcome(evs) ==
    IF \E k \in 1..Len(evs) : evs[k].ev = "history"
    THEN evs[CHOOSE k \in 1..Len(evs) : evs[k].ev = "history"].result
    ELSE "not queried"

fetch_and_save_multiple(input, interval, start_date, end_date) ==
    /\ pc = "idle"
    /\ ticker_input' = input
    /\ batch' = [interval |-> interval, start_date |-> start_date, end_date |-> end_date]
    /\ tickers' = process_tickers(input)
    /\ results' = <<>>
    /\ idx' = 0
    /\ pc' = "loop"
    /\ UNCHANGED <<clock, last_request_time, call, events, ret, outcomes, files, console>>

Iteration ==
    /\ pc = "loop"
    /\ idx < Len(tickers)
    /\ LET ticker == tickers[idx + 1] IN
       /\ fetch_data(ticker, batch.interval, batch.start_date, batch.end_date)
       /\ IF ret' \notin {"data", "None"}
          THEN /\ pc' = "raised"
               /\ UNCHANGED <<idx, results, outcomes, files>>
          ELSE /\ pc' = "loop"
               /\ idx' = idx + 1
               /\ \E s \in SaveResults :
                    LET saved == IF ret' = "None" THEN "not called" ELSE s IN
                    /\ outcomes' = Append(outcomes, [fetch |-> FetchOutcome(events'),
                                                     save  |-> saved])
                    /\ results' = record_result(results, ticker, batch.interval, ret', s)
                    /\ files' = IF saved = "ok"
                                THEN files \cup {save_data(ret', ticker, base_dir,
                                                           batch.interval).data_path}
                                ELSE files
    /\ UNCHANGED <<ticker_input, batch, tickers, console>>

Return ==
    /\ pc = "loop"
    /\ idx = Len(tickers)
    /\ pc' = "returned"
    /\ UNCHANGED <<clock, last_request_time, call, events, ret, ticker_input, batch,
                   tickers, idx, results, outcomes, files, console>>

-----------------------------------------------------------------------------
(* The environment: time passes                                            *)

Tick ==
    /\ clock < MaxTime
    /\ pc \notin {"exit 0", "exit 1"}
    /\ clock' = clock + 1
    /\ UNCHANGED <<last_request_time, call, events, ret, pc, ticker_input, batch,
                   tickers, idx, results, outcomes, files, console>>

-----------------------------------------------------------------------------
(* VisualizationManager.display_results and the end of the command-line run *)

\* results[next(iter(results))]['paths'] raises KeyError when the first entry
\* has no 'paths' key
summary_raises(res) == res # <<>> /\ "paths" \notin DOMAIN res[1][2]

_display_summary_panel(res) ==
    LET total_success == Cardinality({k \in 1..Len(res) : res[k][2].status = "success"})
    IN  [ev            |-> "panel",
         total_success |-> total_success,
         total_failed  |-> Len(res) - total_success,
         base_dir      |-> IF res # <<>>
                           THEN <<res[1][2].paths.ticker_dir.parent>>
                           ELSE <<"N/A">>]

\* generate_all_charts returns its two charts or raises
ChartResults == {"ok", "OSError"}

_add_success_row(ticker, result, generate_charts, chart) ==
    IF generate_charts
    THEN IF chart = "ok"
         THEN [ticker |-> ticker, status |-> "Success",
               text   |-> <<"Data: ", result.paths.data_path.name,
                            "Charts: ", "candlestick.html", "technical.html">>]
         ELSE [ticker |-> ticker, status |-> "Partial Success",
               text   |-> <<"Data saved, but chart generation failed: ", chart>>]
    ELSE [ticker |-> ticker, status |-> "Success",
          text   |-> <<"Data: ", result.paths.data_path.name>>]

_add_error_row(ticker, result) ==
    [ticker |-> ticker, status |-> "Error",
     text   |-> IF "message" \in DOMAIN result THEN result.message
                ELSE <<"Unknown error">>]

\* the table of one row per item of results, charts[k] what chart generation
\* does for item k
_display_detailed_results(res, generate_charts, charts) ==
    [ev   |-> "table",
     rows |-> [k \in 1..Len(res) |->
                 IF res[k][2].status = "success"
                 THEN _add_success_row(res[k][1], res[k][2], generate_charts, charts[k])
                 ELSE _add_error_row(res[k][1], res[k][2])]]

\* main.py fetch_data after the batch returned: display_results, and the
\* handler that turns any exception into exit code 1
display_results ==
    /\ pc = "returned"
    /\ \E generate_charts \in BOOLEAN, charts \in [1..Len(results) -> ChartResults] :
         IF summary_raises(results)
         THEN /\ console' = <<[ev |-> "error", text |-> <<"Error: ", "'paths'">>]>>
              /\ pc' = "exit 1"
         ELSE /\ console' = <<_display_summary_panel(results),
                              _display_detailed_results(results, generate_charts, charts)>>
              /\ pc' = "exit 0"
    /\ UNCHANGED <<clock, last_request_time, call, events, ret, ticker_input, batch,
                   tickers, idx, results, outcomes, files>>

\* main.py fetch_data when fetch_and_save_multiple raised
Abort ==
    /\ pc = "raised"
    /\ console' = <<[ev |-> "error", text |-> <<"Error: ", "Unsupported interval: ",
                                                batch.interval>>]>>
    /\ pc' = "exit 1"
    /\ UNCHANGED <<clock, last_request_time, call, events, ret, ticker_input, batch,
                   tickers, idx, results, outcomes, files>>

-----------------------------------------------------------------------------
(* Inputs                                                                  *)

\* 2024-03-05 and the days 7, 8, 60 and 61 days before it
Dates == {<<2024, 3, 5>>, <<2024, 2, 27>>, <<2024, 2, 26>>, <<2024, 1, 5>>,
          <<2024, 1, 4>>, BadDate, NoDate}

\* the codes yfinance documents, and two it does not
Intervals == {"1m", "2m", "5m", "15m", "30m", "60m", "90m", "1h",
              "1d", "5d", "1wk", "1mo", "3mo", "10m", "1y"}

BatchInputs == { <<>>,
                 <<"a">>,
                 <<"a", ",", "b">>,
                 <<"b", ",", " ", "a">>,
                 <<"a", ",", ",", "a">>,
                 <<"a", ",", "b", ",", "a">> }

BatchIntervals == {"1d", "5m", "10m"}

BatchDates == { <<NoDate, NoDate>>, <<<<2024, 1, 4>>, <<2024, 3, 5>>>> }

ParseChars == {"a", "B", " ", ","}

Strings(n) == UNION {[1..k -> ParseChars] : k \in 0..n}

-----------------------------------------------------------------------------
(* Specifications                                                          *)

Init ==
    /\ clock = 0
    /\ last_request_time = NoTime
    /\ call = [ticker |-> <<>>, interval |-> "", start_date |-> NoDate,
               end_date |-> NoDate]
    /\ events = <<>>
    /\ ret = "no call"
    /\ pc = "idle"
    /\ ticker_input = <<>>
    /\ batch = [interval |-> "", start_date |-> NoDate, end_date |-> NoDate]
    /\ tickers = <<>>
    /\ idx = 0
    /\ results = <<>>
    /\ outcomes = <<>>
    /\ files = {}
    /\ console = <<>>

\* main.py fetch_data: one batch run on a fresh fetcher
Run ==
    \E input \in BatchInputs, interval \in BatchIntervals, d \in BatchDates :
        fetch_and_save_multiple(input, interval, d[1], d[2])

Next == Tick \/ Run \/ Iteration \/ Return \/ display_results \/ Abort

Spec == Init /\ [][Next]_vars

\* fetch_data called directly on one fetcher: any number of calls with the
\* default arguments (interval='1d', no dates), then one call with any arguments
FetchDefault ==
    /\ pc = "idle"
    /\ fetch_data(<<"A">>, "1d", NoDate, NoDate)
    /\ UNCHANGED <<pc, ticker_input, batch, tickers, idx, results, outcomes, files,
                   console>>

FetchData ==
    /\ pc = "idle"
    /\ \E interval \in Intervals, start_date \in Dates, end_date \in Dates :
         fetch_data(<<"A">>, interval, start_date, end_date)
    /\ pc' = "fetched"
    /\ UNCHANGED <<ticker_input, batch, tickers, idx, results, outcomes, files, console>>

NextFetch == Tick \/ FetchDefault \/ FetchData

SpecFetch == Init /\ [][NextFetch]_vars

\* process_tickers applied to every input of up to MaxLen characters
InitParse ==
    /\ ticker_input \in Strings(MaxLen)
    /\ clock = 0
    /\ last_request_time = NoTime
    /\ call = [ticker |-> <<>>, interval |-> "", start_date |-> NoDate,
               end_date |-> NoDate]
    /\ events = <<>>
    /\ ret = "no call"
    /\ pc = "idle"
    /\ batch = [interval |-> "", start_date |-> NoDate, end_date |-> NoDate]
    /\ tickers = <<>>
    /\ idx = 0
    /\ results = <<>>
    /\ outcomes = <<>>
    /\ files = {}
    /\ console = <<>>

ProcessTickers ==
    /\ pc = "idle"
    /\ tickers' = process_tickers(ticker_input)
    /\ pc' = "parsed"
    /\ UNCHANGED <<clock, last_request_time, call, events, ret, ticker_input, batch,
                   idx, results, outcomes, files, console>>

NextParse == ProcessTickers

SpecParse == InitParse /\ [][NextParse]_vars

-----------------------------------------------------------------------------
(* Observations on the latest fetch_data invocation                        *)

Returned == ret \in {"data", "None"}

Queries == SelectSeq(events, LAMBDA e : e.ev = "history")

Notes == SelectSeq(events, LAMBDA e : e.ev = "print_note")

Grants == SelectSeq(events, LAMBDA e : e.ev = "rate_limit")

BothDates == call.start_date # NoDate /\ call.end_date # NoDate

\* the catalog as the specification lists it
CatalogCodes == {"1m", "2m", "5m", "15m", "30m", "60m", "90m", "1h",
                 "1d", "5d", "1wk", "1mo", "3mo"}

CatalogBounded == {"1m", "2m", "5m", "15m", "30m", "60m", "90m", "1h"}

CatalogMaxDays(interval) == IF interval = "1m" THEN 7 ELSE 60

CatalogPeriod(interval) ==
    IF interval = "1m" THEN "7d"
    ELSE IF interval \in CatalogBounded THEN "60d" ELSE "max"

-----------------------------------------------------------------------------
(* C1 *)

\* C1: fetch_data raises the unsupported-interval error exactly for the
\* intervals outside the thirteen catalog codes, and when it raises it has made
\* no provider query and no rate-limiter call: last_request_time is unchanged.
C1_UnsupportedIntervalRaises ==
    [][ /\ ret' # "no call" =>
             (call'.interval \notin CatalogCodes <=> ret' = "ValueError")
        /\ ret' = "ValueError" =>
             /\ events' = <<>>
             /\ last_request_time' = last_request_time ]_vars

\* an unsupported interval was rejected on a fetcher that had granted a request
C1_Witness ==
    /\ ret = "ValueError"
    /\ call.interval \notin CatalogCodes
    /\ last_request_time # NoTime

-----------------------------------------------------------------------------
(* C2 *)

\* C2: with a supported interval and start <= end both given, the range sent
\* to the provider is (end - max days, end) with a notice when the interval is
\* bounded (1m: 7; 2m, 5m, 15m, 30m, 60m, 90m, 1h: 60) and the span exceeds the
\* maximum, and the requested (start, end) without a notice in every other case.
C2_ClampToMaxLookback ==
    ( /\ Returned
      /\ BothDates
      /\ WellFormed(call.start_date)
      /\ WellFormed(call.end_date)
      /\ strptime(call.start_date) <= strptime(call.end_date) ) =>
        LET start == strptime(call.start_date)
            end   == strptime(call.end_date)
            max   == CatalogMaxDays(call.interval)
        IN  /\ Len(Queries) = 1
            /\ Queries[1].kind = "range"
            /\ Queries[1].end = call.end_date
            /\ IF call.interval \in CatalogBounded /\ end - start > max
               THEN /\ Queries[1].start = strftime(end - max)
                    /\ Len(Notes) = 1
               ELSE /\ Queries[1].start = call.start_date
                    /\ Notes = <<>>

-----------------------------------------------------------------------------
(* C3 *)

\* C3: with a supported interval and both dates given, end earlier than start
\* makes fetch_data fail with an invalid-range error that reaches the caller,
\* and the provider is not queried.
C3_EndBeforeStartRaises ==
    ( /\ ret # "no call"
      /\ call.interval \in CatalogCodes
      /\ BothDates
      /\ WellFormed(call.start_date)
      /\ WellFormed(call.end_date)
      /\ strptime(call.end_date) < strptime(call.start_date) ) =>
        /\ ret = "InvalidRangeError"
        /\ Queries = <<>>

-----------------------------------------------------------------------------
(* C4 *)

\* the date of "now" for a call made during the run
Today == <<2024, 3, 5>>

\* C4: with a start date and no end date, the provider is queried with the
\* explicit range (start, now), clamped like any explicit range; the start date
\* is not dropped in favour of the interval's default period.
C4_EndDefaultsToNow ==
    ( /\ Returned
      /\ WellFormed(call.start_date)
      /\ call.end_date = NoDate ) =>
        LET start == strptime(call.start_date)
            end   == strptime(Today)
            max   == CatalogMaxDays(call.interval)
        IN  /\ Len(Queries) = 1
            /\ Queries[1].kind = "range"
            /\ Queries[1].end = Today
            /\ Queries[1].start =
                 IF call.interval \in CatalogBounded /\ end - start > max
                 THEN strftime(end - max)
                 ELSE call.start_date

-----------------------------------------------------------------------------
(* C5 *)

\* C5: with a supported interval and neither date given, the provider is
\* queried once, by period, with the catalog's maximum lookback of the interval
\* (7d for 1m, 60d for 2m..1h, max for 1d..3mo), and no notice is printed.
C5_DefaultPeriod ==
    ( /\ ret # "no call"
      /\ call.interval \in CatalogCodes
      /\ call.start_date = NoDate
      /\ call.end_date = NoDate ) =>
        /\ Returned
        /\ Len(Queries) = 1
        /\ Queries[1].kind = "period"
        /\ Queries[1].period = CatalogPeriod(call.interval)
        /\ Queries[1].interval = call.interval
        /\ Queries[1].start = NoDate
        /\ Queries[1].end = NoDate
        /\ Notes = <<>>

\* a bounded interval was fetched without dates
C5_Witness ==
    /\ Returned
    /\ call.interval = "90m"
    /\ call.start_date = NoDate
    /\ call.end_date = NoDate
    /\ Len(Queries) = 1
    /\ Queries[1].period = "60d"

-----------------------------------------------------------------------------
(* C6 *)

\* C6: every grant of the rate limiter is stamped in last_request_time, and a
\* grant that follows another one comes at least min_request_interval after
\* it: a call arriving earlier is suspended for at least the remaining delta, a
\* call arriving later is not suspended.  The provider queries of consecutive
\* invocations are therefore at least min_request_interval apart.
C6_GrantsSpaced ==
    [][ last_request_time' # last_request_time =>
          /\ last_request_time' = clock'
          /\ Len(Grants') = 1
          /\ Grants'[1].at = last_request_time'
          /\ last_request_time # NoTime =>
               /\ last_request_time' - last_request_time >= min_request_interval
               /\ IF clock - last_request_time < min_request_interval
                  THEN clock' - clock >= min_request_interval - (clock - last_request_time)
                  ELSE clock' = clock
          /\ (Queries # <<>> /\ Queries' # <<>>) =>
               Queries'[1].at - Queries[1].at >= min_request_interval ]_vars

\* the second provider call of a batch was made after the limiter slept
C6_Witness ==
    /\ idx >= 2
    /\ Len(Grants) = 1
    /\ Grants[1].slept > 0
    /\ Len(Queries) = 1
    /\ Queries[1].at = last_request_time

-----------------------------------------------------------------------------
(* Observations on a batch run                                             *)

\* iteration k is the latest one so far for its ticker
LastOccurrence(k) == \A j \in (k + 1)..idx : tickers[j] # tickers[k]

\* the storage layout of ticker t: D/T and D/T/data/T_I.csv
StoragePaths(t, interval) ==
    [ticker_dir |-> [parent |-> base_dir, name |-> t],
     data_path  |-> [parent |-> [parent |-> [parent |-> base_dir, name |-> t],
                                 name |-> "data"],
                     name   |-> [ticker |-> t, interval |-> interval, ext |-> ".csv"]]]

-----------------------------------------------------------------------------
(* C7 *)

\* C7: in a batch with a supported interval no provider failure, empty result
\* or save failure aborts the run: each iteration fetches the next ticker of
\* the list and leaves the loop running, the run only ends by returning after
\* the last ticker, and the report then has an entry for every parsed ticker.
C7_BatchNeverAborts ==
    [][ batch'.interval \in CatalogCodes =>
          /\ pc' # "raised"
          /\ (pc = "loop" /\ idx' # idx) =>
               /\ idx' = idx + 1
               /\ call'.ticker = tickers[idx']
               /\ Returned'
               /\ pc' = "loop"
               /\ Len(outcomes') = idx'
          /\ pc' = "returned" =>
               /\ idx' = Len(tickers')
               /\ \A k \in 1..Len(tickers') : tickers'[k] \in DictKeys(results') ]_vars

\* a run of three tickers returned although the first fetch failed, the second
\* save failed and the third result was empty
C7_Witness ==
    /\ pc = "returned"
    /\ Len(tickers) = 3
    /\ outcomes[1].fetch = "error"
    /\ outcomes[2].save = "OSError"
    /\ outcomes[3].fetch = "empty"
    /\ DictKeys(results) = {tickers[1], tickers[2]}

-----------------------------------------------------------------------------
(* C8 *)

\* C8: the report entry of a ticker is decided by the provider and save
\* outcome of that ticker's own (latest) iteration alone: rows and a successful
\* save give status success with the storage paths, an empty result gives
\* status error with the message "Failed to fetch data".
C8_EntryFromOwnOutcome ==
    pc \in {"loop", "returned", "exit 0", "exit 1"} =>
        \A k \in 1..idx : LastOccurrence(k) =>
            /\ tickers[k] \in DictKeys(results)
            /\ (outcomes[k].fetch = "data" /\ outcomes[k].save = "ok") =>
                 /\ DictGet(results, tickers[k]).status = "success"
                 /\ DictGet(results, tickers[k]).paths =
                        StoragePaths(tickers[k], batch.interval)
            /\ outcomes[k].fetch = "empty" =>
                 DictGet(results, tickers[k]) =
                     [status |-> "error", message |-> <<"Failed to fetch data">>]

\* two different tickers, one saved and one empty, in either order
C8_Witness ==
    /\ pc = "returned"
    /\ tickers = << <<"B">>, <<"A">> >>
    /\ outcomes[1].fetch = "empty"
    /\ outcomes[2].fetch = "data"
    /\ outcomes[2].save = "ok"
    /\ DictGet(results, <<"A">>).status = "success"
    /\ DictGet(results, <<"B">>).status = "error"

-----------------------------------------------------------------------------
(* C9 *)

\* C9: when a ticker's fetch returned rows and saving them failed, its report
\* entry has status error and a message carrying the save failure, with no
\* paths, and the run has not been aborted.
C9_SaveFailureIsError ==
    (\E k \in 1..Len(outcomes) : outcomes[k].save = "OSError") =>
        /\ pc # "raised"
        /\ pc # "loop" => idx = Len(tickers)
        /\ \A k \in 1..idx :
             (LastOccurrence(k) /\ outcomes[k].fetch = "data"
                                /\ outcomes[k].save = "OSError") =>
                /\ DictGet(results, tickers[k]).status = "error"
                /\ DictGet(results, tickers[k]).message =
                       <<"Error saving data: ", "OSError">>
                /\ DOMAIN DictGet(results, tickers[k]) = {"status", "message"}

\* the save of the first ticker failed and the second ticker was still processed
C9_Witness ==
    /\ idx = 2
    /\ tickers[1] # tickers[2]
    /\ outcomes[1].fetch = "data"
    /\ outcomes[1].save = "OSError"
    /\ DictGet(results, tickers[1]).status = "error"
    /\ outcomes[2].save = "ok"

-----------------------------------------------------------------------------
(* C10 *)

\* the positions just before each segment of s: 0 and every comma
SegmentStarts(s) == {0} \cup {i \in 1..Len(s) : s[i] = ","}

\* the position just after the segment that starts at a
SegmentEnd(s, a) ==
    IF \E i \in (a + 1)..Len(s) : s[i] = ","
    THEN CHOOSE i \in (a + 1)..Len(s) :
             s[i] = "," /\ \A j \in (a + 1)..(i - 1) : s[j] # ","
    ELSE Len(s) + 1

\* the positions of the segment at a that hold no whitespace
Inked(s, a) == {i \in (a + 1)..(SegmentEnd(s, a) - 1) : s[i] \notin {" ", "\t", "\n"}}

Min(S) == CHOOSE x \in S : \A y \in S : x <= y

Max(S) == CHOOSE x \in S : \A y \in S : y <= x

UpperCased(c) == IF c = "a" THEN "A" ELSE c

\* C10: process_tickers returns, in order, one element for every
\* comma-separated segment that is not blank: the segment without its
\* surrounding whitespace, upper-cased; duplicates are kept.
C10_ProcessTickers ==
    pc = "parsed" =>
        LET s  == ticker_input
            NB == {a \in SegmentStarts(s) : Inked(s, a) # {}}
        IN  /\ Len(tickers) = Cardinality(NB)
            /\ \A a \in NB :
                 LET k    == Cardinality({b \in NB : b <= a})
                     from == Min(Inked(s, a))
                     to   == Max(Inked(s, a))
                 IN  /\ Len(tickers[k]) = to - from + 1
                     /\ \A i \in from..to : tickers[k][i - from + 1] = UpperCased(s[i])

\* "a ,,a": trimmed, blank segment dropped, duplicate kept
C10_Witness ==
    /\ pc = "parsed"
    /\ ticker_input = <<"a", " ", ",", ",", "a">>
    /\ tickers = << <<"A">>, <<"A">> >>

-----------------------------------------------------------------------------
(* C11 *)

\* C11: after a batch with a supported interval returned its report, the
\* command-line run prints a table with one row per report entry, each failed
\* ticker's row showing its error message, and ends with exit code 0, wherever
\* the failed tickers stand in the report.
C11_ReportDisplayedExitZero ==
    (pc \in {"exit 0", "exit 1"} /\ batch.interval \in CatalogCodes) =>
        /\ pc = "exit 0"
        /\ Len(console) = 2
        /\ console[2].ev = "table"
        /\ Len(console[2].rows) = Len(results)
        /\ \A k \in 1..Len(results) :
             /\ console[2].rows[k].ticker = results[k][1]
             /\ results[k][2].status = "error" =>
                  /\ console[2].rows[k].status = "Error"
                  /\ console[2].rows[k].text = results[k][2].message

-----------------------------------------------------------------------------
(* C12 *)

\* what str(e) of a provider failure reads
ProviderFailureMessage == <<"provider failure">>

\* C12 as stated: a ticker whose provider call failed is reported with status
\* error and the provider's failure message, which differs from the message of
\* an empty result.
C12_ProviderMessageVerbatim ==
    pc \in {"loop", "returned"} =>
        \A k \in 1..idx : (LastOccurrence(k) /\ outcomes[k].fetch = "error") =>
            /\ tickers[k] \in DictKeys(results)
            /\ DictGet(results, tickers[k]).status = "error"
            /\ DictGet(results, tickers[k]).message = ProviderFailureMessage
            /\ DictGet(results, tickers[k]).message # <<"Failed to fetch data">>

\* C12 amended: a ticker whose provider call failed is reported with status
\* error and the message "Failed to fetch data", the same entry as for an
\* empty result.
C12_ProviderFailureCollapsed ==
    pc \in {"loop", "returned"} =>
        \A k \in 1..idx : (LastOccurrence(k) /\ outcomes[k].fetch = "error") =>
            /\ tickers[k] \in DictKeys(results)
            /\ DictGet(results, tickers[k]) =
                   [status |-> "error", message |-> <<"Failed to fetch data">>]

\* one ticker's provider call failed and another's result was empty
C12_Witness ==
    /\ pc = "returned"
    /\ Len(tickers) = 2
    /\ tickers[1] # tickers[2]
    /\ outcomes[1].fetch = "error"
    /\ outcomes[2].fetch = "empty"
    /\ DictGet(results, tickers[1]) = DictGet(results, tickers[2])

-----------------------------------------------------------------------------
(* C13 *)

\* the entry the report must hold for an iteration with outcome o
EntryFor(t, interval, o) ==
    IF o.fetch = "data" /\ o.save = "ok"
    THEN [status |-> "success", paths |-> StoragePaths(t, interval), data |-> "data"]
    ELSE IF o.fetch = "data"
    THEN [status |-> "error", message |-> <<"Error saving data: ", o.save>>]
    ELSE [status |-> "error", message |-> <<"Failed to fetch data">>]

\* C13: every occurrence of a ticker in the parsed list gets its own fetch
\* with one provider query, and the returned report holds one entry per
\* distinct ticker, with the outcome of the ticker's last occurrence.
C13_RepeatedTicker ==
    [][ /\ (pc = "loop" /\ idx' # idx) =>
             /\ idx' = idx + 1
             /\ call'.ticker = tickers[idx']
             /\ Len(Queries') = 1
        /\ pc' = "returned" =>
             /\ idx' = Len(tickers')
             /\ Len(outcomes') = Len(tickers')
             /\ Len(results') = Cardinality({tickers'[k] : k \in 1..Len(tickers')})
             /\ \A k \in 1..Len(tickers') :
                  (\A j \in (k + 1)..Len(tickers') : tickers'[j] # tickers'[k]) =>
                      /\ tickers'[k] \in DictKeys(results')
                      /\ DictGet(results', tickers'[k]) =
                             EntryFor(tickers'[k], batch'.interval, outcomes'[k]) ]_vars

\* "a,b,a": A saved at first and came back empty at last
C13_Witness ==
    /\ pc = "returned"
    /\ tickers = << <<"A">>, <<"B">>, <<"A">> >>
    /\ outcomes[1].fetch = "data"
    /\ outcomes[1].save = "ok"
    /\ outcomes[3].fetch = "empty"
    /\ Len(results) = 2
    /\ DictGet(results, <<"A">>).status = "error"

-----------------------------------------------------------------------------
(* C14 *)

\* C14 as stated: every fetch_data invocation that returns has made exactly
\* one rate-limiter acquisition followed by exactly one provider call.
C14_OneGrantOneQuery ==
    Returned =>
        /\ Len(Grants) = 1
        /\ Len(Queries) = 1
        /\ events[1].ev = "rate_limit"

\* the intervals for which fetch_data parses the dates before the query
ParsedBeforeQuery == {"1m", "2m", "5m", "15m", "30m", "60m", "1h"}

\* C14 amended: every fetch_data invocation that returns has made exactly one
\* rate-limiter acquisition, first of all, and then exactly one provider call,
\* except that it makes no provider call when both dates are given, the
\* interval is one of 1m, 2m, 5m, 15m, 30m, 60m, 1h and a date is not in
\* YYYY-MM-DD form.
C14_OneGrantThenQuery ==
    Returned =>
        /\ Len(Grants) = 1
        /\ events[1].ev = "rate_limit"
        /\ Len(Queries) =
             IF /\ BothDates
                /\ call.interval \in ParsedBeforeQuery
                /\ ~(WellFormed(call.start_date) /\ WellFormed(call.end_date))
             THEN 0 ELSE 1
        /\ \A k \in 1..Len(events) : events[k].ev = "history" => k > 1

\* a clamped range was queried after the limiter's grant and the provider failed
C14_Witness ==
    /\ pc = "fetched"
    /\ ret = "None"
    /\ Len(events) = 4
    /\ events[1].ev = "rate_limit"
    /\ events[2].ev = "print_note"
    /\ events[3].ev = "history"
    /\ events[3].result = "error"

====
